---- MODULE Spec2Model ----
(***************************************************************************)
(* giblefs: a git object store served as a read-only FUSE filesystem.      *)
(* The model covers the inode registry of GitRepo (src/src/git.rs) and the *)
(* four request handlers of GilberFS (src/src/fs.rs).                      *)
(***************************************************************************)
EXTENDS Integers, Sequences, FiniteSets, TLC

(***************************************************************************)
(* Bounds of the request arguments.                                        *)
(***************************************************************************)
MaxOffset == 3
MaxSize == 2
MaxDirOffset == 6
NumRequests == 2

(***************************************************************************)
(* Text.  A name is a sequence of one-character strings; NonUtf8 stands    *)
(* for a byte that is not valid UTF-8.                                     *)
(***************************************************************************)
NonUtf8 == "?"

HexDigits == {"0", "1", "2", "9", "a", "b", "c", "d", "e"}

HexVal(ch) ==
    CASE ch = "0" -> 0  [] ch = "1" -> 1  [] ch = "2" -> 2  [] ch = "9" -> 9
      [] ch = "a" -> 10 [] ch = "b" -> 11 [] ch = "c" -> 12 [] ch = "d" -> 13
      [] ch = "e" -> 14

\* Number of hex digits of an object id (40 in git, scaled down).
OidHexLen == 2

\* The value of the digits s[i..], padded with zero digits to OidHexLen.
RECURSIVE HexValue(_, _, _)
HexValue(s, i, acc) ==
    IF i > OidHexLen THEN acc
    ELSE HexValue(s, i + 1, 16 * acc + (IF i <= Len(s) THEN HexVal(s[i]) ELSE 0))

\* OsStr::to_str: None when the name is not valid UTF-8.
to_str(name) ==
    IF \E i \in 1..Len(name) : name[i] = NonUtf8
    THEN [some |-> FALSE, str |-> <<>>]
    ELSE [some |-> TRUE, str |-> name]

\* Oid::from_str: fails on an empty string, on more than OidHexLen digits and
\* on a non-hex character; a shorter string is padded with zero digits.
Oid_from_str(s) ==
    IF Len(s) = 0 \/ Len(s) > OidHexLen \/ \E i \in 1..Len(s) : s[i] \notin HexDigits
    THEN [ok |-> FALSE, oid |-> 0]
    ELSE [ok |-> TRUE, oid |-> HexValue(s, 1, 0)]

(***************************************************************************)
(* The repository storage backend: an immutable object store.              *)
(*   commit c1 -> tree a1 = [a.txt -> blob b1 "hi", b -> blob b9 (missing),*)
(*                           c -> commit c2, d -> tree d0 (empty)]         *)
(*   commit c2 -> tree d0                                                  *)
(*   tree e0 (empty), reachable from no commit                             *)
(***************************************************************************)
OidC1 == Oid_from_str(<<"c", "1">>).oid
OidC2 == Oid_from_str(<<"c", "2">>).oid
OidA1 == Oid_from_str(<<"a", "1">>).oid
OidB1 == Oid_from_str(<<"b", "1">>).oid
OidB9 == Oid_from_str(<<"b", "9">>).oid
OidD0 == Oid_from_str(<<"d", "0">>).oid
OidE0 == Oid_from_str(<<"e", "0">>).oid

Entry(name, kind, id) == [name |-> name, kind |-> kind, id |-> id]

Obj(kind, tree_id, entries, content) ==
    [kind |-> kind, tree_id |-> tree_id, entries |-> entries, content |-> content]

NameATxt == <<"a", ".", "t", "x", "t">>
NameB == <<"b">>
NameC == <<"c">>
NameD == <<"d">>

ObjectDb ==
    (OidC1 :> Obj("commit", OidA1, <<>>, <<>>)) @@
    (OidC2 :> Obj("commit", OidD0, <<>>, <<>>)) @@
    (OidA1 :> Obj("tree", 0, << Entry(NameATxt, "blob", OidB1),
                                Entry(NameB, "blob", OidB9),
                                Entry(NameC, "commit", OidC2),
                                Entry(NameD, "tree", OidD0) >>, <<>>)) @@
    (OidB1 :> Obj("blob", 0, <<>>, <<"h", "i">>)) @@
    (OidD0 :> Obj("tree", 0, <<>>, <<>>)) @@
    (OidE0 :> Obj("tree", 0, <<>>, <<>>))

\* Repository::find_object(hash, kind): the object, when it exists and is of
\* the requested kind ("any" stands for no kind filter).
find_object(hash, kind) ==
    IF hash \in DOMAIN ObjectDb /\ (kind = "any" \/ ObjectDb[hash].kind = kind)
    THEN [ok |-> TRUE, obj |-> ObjectDb[hash]]
    ELSE [ok |-> FALSE, obj |-> Obj("none", 0, <<>>, <<>>)]

(***************************************************************************)
(* State.                                                                  *)
(***************************************************************************)
VARIABLES
    inode_map,    \* GitRepo.inode_map: the BiMap<Ino, Oid>, a set of pairs
    inode_gen,    \* GitRepo.inode_gen: the last inode number issued
    ino_parent,   \* the parent hash recorded with each issued inode
    overwritten,  \* whether an insert into inode_map ever displaced a pair
    resolved,     \* the (hash, inode) pairs get_object has returned so far
    request,      \* the last request of the kernel
    reply,        \* the terminal reply to it
    replies,      \* the number of terminal replies the handler sent for it
    page,         \* a client paging through one directory
    threads       \* the get_object call of each request handled concurrently

vars == <<inode_map, inode_gen, ino_parent, overwritten, resolved,
          request, reply, replies, page, threads>>

ROOT_INO == 1

\* The GitRepo value the handlers thread through their calls.
Repo == [inode_map |-> inode_map, inode_gen |-> inode_gen,
         ino_parent |-> ino_parent, overwritten |-> overwritten,
         resolved |-> resolved]

(***************************************************************************)
(* Inode allocator and registry.                                           *)
(***************************************************************************)
\* InodeGen::next
InodeGen_next(gen) == gen + 1

\* BiMap::get_by_right
get_by_right(m, hash) == {p[1] : p \in {q \in m : q[2] = hash}}

\* BiMap::get_by_left
get_by_left(m, ino) == {p[2] : p \in {q \in m : q[1] = ino}}

\* BiMap::insert: the new pair displaces every pair that shares a side.
BiMap_insert(m, ino, hash) ==
    {p \in m : p[1] # ino /\ p[2] # hash} \cup {<<ino, hash>>}

\* Whether BiMap::insert reports an overwritten pair.
BiMap_overwrites(m, ino, hash) ==
    \E p \in m : (p[1] = ino \/ p[2] = hash) /\ p # <<ino, hash>>

NoObject == Obj("none", 0, <<>>, <<>>)

\* The miss branch of get_object: the pair (ino, hash) is inserted and ino
\* becomes the last inode issued.
assign(g, parent, hash, ino) ==
    [inode_map |-> BiMap_insert(g.inode_map, ino, hash),
     inode_gen |-> ino,
     ino_parent |-> {p \in g.ino_parent : p[1] # ino} \cup {<<ino, parent>>},
     overwritten |-> g.overwritten \/ BiMap_overwrites(g.inode_map, ino, hash),
     resolved |-> g.resolved \cup {<<hash, ino>>}]

\* get_object without the cache lookup: every resolution allocates.
get_object_no_cache(g, parent, hash, kind) ==
    LET found == find_object(hash, kind)
        ino == InodeGen_next(g.inode_gen)
    IN  IF ~found.ok
        THEN [ok |-> FALSE, ino |-> 0, obj |-> NoObject, g |-> g]
        ELSE [ok |-> TRUE, ino |-> ino, obj |-> found.obj,
              g |-> assign(g, parent, hash, ino)]

\* get_object drawing the next inode number before the cache lookup.
get_object_eager_next(g, parent, hash, kind) ==
    LET found == find_object(hash, kind)
        hit == get_by_right(g.inode_map, hash)
        ino == InodeGen_next(g.inode_gen)
    IN  IF ~found.ok
        THEN [ok |-> FALSE, ino |-> 0, obj |-> NoObject, g |-> g]
        ELSE IF hit # {}
        THEN [ok |-> TRUE, ino |-> CHOOSE i \in hit : TRUE, obj |-> found.obj,
              g |-> [g EXCEPT !.inode_gen = ino,
                              !.resolved = @ \cup {<<hash, CHOOSE i \in hit : TRUE>>}]]
        ELSE [ok |-> TRUE, ino |-> ino, obj |-> found.obj,
              g |-> assign(g, parent, hash, ino)]

\* get_object inserting the last inode issued instead of drawing the next one.
get_object_stale_ino(g, parent, hash, kind) ==
    LET found == find_object(hash, kind)
        hit == get_by_right(g.inode_map, hash)
    IN  IF ~found.ok
        THEN [ok |-> FALSE, ino |-> 0, obj |-> NoObject, g |-> g]
        ELSE IF hit # {}
        THEN [ok |-> TRUE, ino |-> CHOOSE i \in hit : TRUE, obj |-> found.obj,
              g |-> [g EXCEPT !.resolved = @ \cup {<<hash, CHOOSE i \in hit : TRUE>>}]]
        ELSE [ok |-> TRUE, ino |-> g.inode_gen, obj |-> found.obj,
              g |-> assign(g, parent, hash, g.inode_gen)]

\* get_object drawing the next inode number before the backend fetch, so a
\* failed fetch has already consumed it.
get_object_next_before_find(g, parent, hash, kind) ==
    LET found == find_object(hash, kind)
        hit == get_by_right(g.inode_map, hash)
    IN  IF ~found.ok
        THEN [ok |-> FALSE, ino |-> 0, obj |-> NoObject,
              g |-> [g EXCEPT !.inode_gen = InodeGen_next(@)]]
        ELSE IF hit # {}
        THEN LET ino == CHOOSE i \in hit : TRUE
             IN  [ok |-> TRUE, ino |-> ino, obj |-> found.obj,
                  g |-> [g EXCEPT !.resolved = @ \cup {<<hash, ino>>}]]
        ELSE LET ino == InodeGen_next(g.inode_gen)
             IN  [ok |-> TRUE, ino |-> ino, obj |-> found.obj,
                  g |-> assign(g, parent, hash, ino)]

\* GitRepo::get_object, called with the parent hash the caller passes along.
get_object(g, parent, hash, kind) ==
    LET found == find_object(hash, kind)
        hit == get_by_right(g.inode_map, hash)
    IN  IF ~found.ok
        THEN [ok |-> FALSE, ino |-> 0, obj |-> NoObject, g |-> g]
        ELSE IF hit # {}
        THEN LET ino == CHOOSE i \in hit : TRUE
             IN  [ok |-> TRUE, ino |-> ino, obj |-> found.obj,
                  g |-> [g EXCEPT !.resolved = @ \cup {<<hash, ino>>}]]
        ELSE LET ino == InodeGen_next(g.inode_gen)
             IN  [ok |-> TRUE, ino |-> ino, obj |-> found.obj,
                  g |-> assign(g, parent, hash, ino)]

\* get_object_by_inode fetching the object without the expected-kind filter.
get_object_by_inode_any_kind(g, ino, kind) ==
    LET hit == get_by_left(g.inode_map, ino)
    IN  IF hit # {}
        THEN LET hash == CHOOSE h \in hit : TRUE
                 found == find_object(hash, "any")
             IN  [ok |-> found.ok, ino |-> ino, hash |-> hash, obj |-> found.obj]
        ELSE [ok |-> FALSE, ino |-> ino, hash |-> 0, obj |-> NoObject]

\* GitRepo::get_object_by_inode
get_object_by_inode(g, ino, kind) ==
    LET hit == get_by_left(g.inode_map, ino)
    IN  IF hit # {}
        THEN LET hash == CHOOSE h \in hit : TRUE
                 found == find_object(hash, kind)
             IN  [ok |-> found.ok, ino |-> ino, hash |-> hash, obj |-> found.obj]
        ELSE [ok |-> FALSE, ino |-> ino, hash |-> 0, obj |-> NoObject]

\* get_commit resolving the hash without the Commit kind filter.
get_commit_any_kind(g, hash) == get_object(g, hash, hash, "any")

get_commit(g, hash) == get_object(g, hash, hash, "commit")

get_tree(g, parent, hash) == get_object(g, parent, hash, "tree")

\* get_blob issuing a new inode for the blob on every call.
get_blob_fresh(g, parent, hash) == get_object_no_cache(g, parent, hash, "blob")

get_blob(g, parent, hash) == get_object(g, parent, hash, "blob")

\* get_tree_by_inode fetching the inode's object without asking for a Tree.
get_tree_by_inode_unfiltered(g, ino) == get_object_by_inode(g, ino, "any")

get_tree_by_inode(g, ino) == get_object_by_inode(g, ino, "tree")

get_blob_by_inode(g, ino) == get_object_by_inode(g, ino, "blob")

\* GitRepo::get_tree_by_commit: the commit is resolved by hash, then its root
\* tree, reached under the commit's hash.
get_tree_by_commit(g, hash) ==
    LET c == get_commit(g, hash)
    IN  IF ~c.ok THEN c ELSE get_tree(c.g, hash, c.obj.tree_id)

\* GitTree::parent: the hash under which the tree's inode was issued.
tree_parent(g, ino) == CHOOSE h \in {p[2] : p \in {q \in g.ino_parent : q[1] = ino}} : TRUE

(***************************************************************************)
(* Attributes and replies.                                                 *)
(***************************************************************************)
ENOENT == "ENOENT"
EISDIR == "EISDIR"
EINVAL == "EINVAL"

FileAttr(ino, size, kind, nlink) ==
    [ino |-> ino, size |-> size, kind |-> kind, nlink |-> nlink]

ROOT_ATTR == FileAttr(ROOT_INO, 0, "Directory", 2)

NoAttr == FileAttr(0, 0, "none", 0)

\* ToFileAttr for GitTree and GitBlob.
to_file_attr(ino, obj) ==
    IF obj.kind = "tree" THEN FileAttr(ino, 0, "Directory", 2)
    ELSE FileAttr(ino, Len(obj.content), "RegularFile", 1)

Reply(kind, errno, attr, data, entries) ==
    [kind |-> kind, errno |-> errno, attr |-> attr, data |-> data, entries |-> entries]

reply_entry(attr) == Reply("entry", "", attr, <<>>, <<>>)
reply_attr(attr) == Reply("attr", "", attr, <<>>, <<>>)
reply_data(data) == Reply("data", "", NoAttr, data, <<>>)
reply_ok(entries) == Reply("dir", "", NoAttr, <<>>, entries)
reply_error(errno) == Reply("error", errno, NoAttr, <<>>, <<>>)

\* The handler unwound from a panic before it called a reply method.
NoReply == Reply("panic", "", NoAttr, <<>>, <<>>)

\* What a handler leaves behind: the repository, the terminal reply and the
\* number of terminal replies it sent.
Out(g, r) == [g |-> g, reply |-> r, replies |-> IF r.kind = "panic" THEN 0 ELSE 1]

Min(a, b) == IF a <= b THEN a ELSE b

(***************************************************************************)
(* Request handlers.                                                       *)
(***************************************************************************)
\* lookup_commit resolving the name as a tree hash instead of a commit hash.
lookup_commit_as_tree(g, hash) ==
    LET oid == Oid_from_str(hash)
    IN  IF ~oid.ok THEN [ok |-> FALSE, g |-> g, attr |-> NoAttr]
        ELSE LET t == get_tree(g, oid.oid, oid.oid)
             IN  IF ~t.ok THEN [ok |-> FALSE, g |-> t.g, attr |-> NoAttr]
                 ELSE [ok |-> TRUE, g |-> t.g, attr |-> to_file_attr(t.ino, t.obj)]

\* GilberFS::lookup_commit
lookup_commit(g, hash) ==
    LET oid == Oid_from_str(hash)
    IN  IF ~oid.ok THEN [ok |-> FALSE, g |-> g, attr |-> NoAttr]
        ELSE LET t == get_tree_by_commit(g, oid.oid)
             IN  IF ~t.ok THEN [ok |-> FALSE, g |-> t.g, attr |-> NoAttr]
                 ELSE [ok |-> TRUE, g |-> t.g, attr |-> to_file_attr(t.ino, t.obj)]

\* git2::Tree::get_path for a single path component.
get_path(tree, name) ==
    LET hits == {i \in 1..Len(tree.entries) : tree.entries[i].name = name}
    IN  IF hits = {} THEN [ok |-> FALSE, id |-> 0, kind |-> "none"]
        ELSE LET e == tree.entries[CHOOSE i \in hits : TRUE]
             IN  [ok |-> TRUE, id |-> e.id, kind |-> e.kind]

\* lookup resolving an entry of any other kind as a generic object.
lookup_any_entry(g, parent, name) ==
    IF parent = ROOT_INO
    THEN LET s == to_str(name)
             c == lookup_commit(g, s.str)
         IN  IF s.some /\ c.ok THEN Out(c.g, reply_entry(c.attr))
             ELSE IF s.some THEN Out(c.g, reply_error(ENOENT))
             ELSE Out(g, reply_error(ENOENT))
    ELSE LET tree == get_tree_by_inode(g, parent)
         IN  IF ~tree.ok THEN Out(g, reply_error(ENOENT))
             ELSE LET e == get_path(tree.obj, name)
                      tparent == tree_parent(g, tree.ino)
                  IN  IF ~e.ok THEN Out(g, reply_error(ENOENT))
                      ELSE IF e.kind = "blob"
                      THEN LET blob == get_blob(g, tparent, e.id)
                           IN  IF blob.ok
                               THEN Out(blob.g, reply_entry(to_file_attr(blob.ino, blob.obj)))
                               ELSE Out(blob.g, reply_error(ENOENT))
                      ELSE IF e.kind = "tree"
                      THEN LET sub == get_tree(g, tparent, e.id)
                           IN  IF sub.ok
                               THEN Out(sub.g, reply_entry(to_file_attr(sub.ino, sub.obj)))
                               ELSE Out(sub.g, reply_error(ENOENT))
                      ELSE LET o == get_object(g, tparent, e.id, "any")
                           IN  IF o.ok
                               THEN Out(o.g, reply_entry(to_file_attr(o.ino, o.obj)))
                               ELSE Out(o.g, reply_error(ENOENT))

\* GilberFS::lookup
lookup(g, parent, name) ==
    IF parent = ROOT_INO
    THEN LET s == to_str(name)
             c == lookup_commit(g, s.str)
         IN  IF s.some /\ c.ok THEN Out(c.g, reply_entry(c.attr))
             ELSE IF s.some THEN Out(c.g, reply_error(ENOENT))
             ELSE Out(g, reply_error(ENOENT))
    ELSE LET tree == get_tree_by_inode(g, parent)
         IN  IF ~tree.ok THEN Out(g, reply_error(ENOENT))
             ELSE LET e == get_path(tree.obj, name)
                      tparent == tree_parent(g, tree.ino)
                  IN  IF ~e.ok THEN Out(g, reply_error(ENOENT))
                      ELSE IF e.kind = "blob"
                      THEN LET blob == get_blob(g, tparent, e.id)
                           IN  IF blob.ok
                               THEN Out(blob.g, reply_entry(to_file_attr(blob.ino, blob.obj)))
                               ELSE Out(blob.g, reply_error(ENOENT))
                      ELSE IF e.kind = "tree"
                      THEN LET sub == get_tree(g, tparent, e.id)
                           IN  IF sub.ok
                               THEN Out(sub.g, reply_entry(to_file_attr(sub.ino, sub.obj)))
                               ELSE Out(sub.g, reply_error(ENOENT))
                      ELSE Out(g, reply_error(ENOENT))

\* GilberFS::getattr
getattr(g, ino) ==
    LET tree == get_tree_by_inode(g, ino)
        blob == get_blob_by_inode(g, ino)
    IN  IF ino = ROOT_INO THEN Out(g, reply_attr(ROOT_ATTR))
        ELSE IF tree.ok THEN Out(g, reply_attr(to_file_attr(tree.ino, tree.obj)))
        ELSE IF blob.ok THEN Out(g, reply_attr(to_file_attr(blob.ino, blob.obj)))
        ELSE Out(g, reply_error(ENOENT))

\* content[offset..end]: the slice expression panics when offset > end.
slice(content, offset, end) ==
    IF offset > end THEN NoReply
    ELSE reply_data(SubSeq(content, offset + 1, end))

\* read converting offset and size before it looks at the inode's object.
read_args_first(g, ino, offset, size) ==
    LET blob == get_blob_by_inode(g, ino)
        tree == get_tree_by_inode(g, ino)
    IN  IF ino = ROOT_INO THEN Out(g, reply_error(EISDIR))
        ELSE IF ~(offset >= 0 /\ size >= 0) THEN Out(g, reply_error(EINVAL))
        ELSE IF blob.ok
        THEN Out(g, slice(blob.obj.content, offset,
                          Min(offset + size, Len(blob.obj.content))))
        ELSE IF tree.ok THEN Out(g, reply_error(EISDIR))
        ELSE Out(g, reply_error(ENOENT))

\* GilberFS::read
read(g, ino, offset, size) ==
    LET blob == get_blob_by_inode(g, ino)
        tree == get_tree_by_inode(g, ino)
    IN  IF ino = ROOT_INO THEN Out(g, reply_error(EISDIR))
        ELSE IF blob.ok
        THEN IF offset >= 0 /\ size >= 0
             THEN Out(g, slice(blob.obj.content, offset,
                               Min(offset + size, Len(blob.obj.content))))
             ELSE Out(g, reply_error(EINVAL))
        ELSE IF tree.ok THEN Out(g, reply_error(EISDIR))
        ELSE Out(g, reply_error(ENOENT))

DirEnt(ino, offset, kind, name) ==
    [ino |-> ino, offset |-> offset, kind |-> kind, name |-> name]

NameDot == <<".">>
NameDotDot == <<".", ".">>

\* Ino::parent: the inode number of the parent hash recorded with the inode.
ino_parent_of(g, ino) ==
    LET hit == get_by_right(g.inode_map, tree_parent(g, ino))
    IN  IF hit = {} THEN 0 ELSE CHOOSE i \in hit : TRUE

\* The loop of readdir numbering the entry counted idx from 0 with idx + 2.
RECURSIVE readdir_entries_from_two(_, _, _, _, _)
readdir_entries_from_two(g, parent, entries, i, acc) ==
    IF i > Len(entries) THEN [g |-> g, listing |-> acc]
    ELSE LET e == entries[i]
             r == get_object(g, parent, e.id, IF e.kind = "none" THEN "any" ELSE e.kind)
         IN  IF r.ok /\ r.obj.kind = "blob"
             THEN readdir_entries_from_two(r.g, parent, entries, i + 1,
                      Append(acc, DirEnt(r.ino, (i - 1) + 2, "RegularFile", e.name)))
             ELSE IF r.ok /\ r.obj.kind = "tree"
             THEN readdir_entries_from_two(r.g, parent, entries, i + 1,
                      Append(acc, DirEnt(r.ino, (i - 1) + 2, "Directory", e.name)))
             ELSE readdir_entries_from_two(r.g, parent, entries, i + 1, acc)

\* The loop of readdir leaving at the first entry it cannot list.
RECURSIVE readdir_entries_until_failure(_, _, _, _, _)
readdir_entries_until_failure(g, parent, entries, i, acc) ==
    IF i > Len(entries) THEN [g |-> g, listing |-> acc]
    ELSE LET e == entries[i]
             r == get_object(g, parent, e.id, IF e.kind = "none" THEN "any" ELSE e.kind)
         IN  IF r.ok /\ r.obj.kind = "blob"
             THEN readdir_entries_until_failure(r.g, parent, entries, i + 1,
                      Append(acc, DirEnt(r.ino, (i - 1) + 3, "RegularFile", e.name)))
             ELSE IF r.ok /\ r.obj.kind = "tree"
             THEN readdir_entries_until_failure(r.g, parent, entries, i + 1,
                      Append(acc, DirEnt(r.ino, (i - 1) + 3, "Directory", e.name)))
             ELSE [g |-> r.g, listing |-> acc]

\* The loop of readdir over the entries from the i-th on (counted from 1);
\* the entry counted idx from 0 is added with offset idx + 3.
RECURSIVE readdir_entries(_, _, _, _, _)
readdir_entries(g, parent, entries, i, acc) ==
    IF i > Len(entries) THEN [g |-> g, listing |-> acc]
    ELSE LET e == entries[i]
             r == get_object(g, parent, e.id, IF e.kind = "none" THEN "any" ELSE e.kind)
         IN  IF r.ok /\ r.obj.kind = "blob"
             THEN readdir_entries(r.g, parent, entries, i + 1,
                      Append(acc, DirEnt(r.ino, (i - 1) + 3, "RegularFile", e.name)))
             ELSE IF r.ok /\ r.obj.kind = "tree"
             THEN readdir_entries(r.g, parent, entries, i + 1,
                      Append(acc, DirEnt(r.ino, (i - 1) + 3, "Directory", e.name)))
             ELSE readdir_entries(r.g, parent, entries, i + 1, acc)

\* offset.saturating_sub(2)
saturating_sub(a, b) == IF a >= b THEN a - b ELSE 0

\* readdir skipping offset stored entries instead of offset - 2.
readdir_skip_offset(g, ino, offset) ==
    LET tree == get_tree_by_inode(g, ino)
    IN  IF ino = ROOT_INO THEN Out(g, reply_error(ENOENT))
        ELSE IF offset < 0 THEN Out(g, reply_error(EINVAL))
        ELSE IF ~tree.ok THEN Out(g, reply_error(ENOENT))
        ELSE LET dot == IF ~(offset >= 1)
                        THEN <<DirEnt(tree.ino, 1, "Directory", NameDot)>>
                        ELSE <<>>
                 dotdot == IF ~(offset >= 2)
                           THEN <<DirEnt(ino_parent_of(g, tree.ino), 2, "Directory",
                                         NameDotDot)>>
                           ELSE <<>>
                 rest == readdir_entries(g, tree_parent(g, tree.ino), tree.obj.entries,
                                         offset + 1, dot \o dotdot)
             IN  Out(rest.g, reply_ok(rest.listing))

\* readdir resolving the tree before it converts the offset.
readdir_tree_first(g, ino, offset) ==
    LET tree == get_tree_by_inode(g, ino)
    IN  IF ino = ROOT_INO THEN Out(g, reply_error(ENOENT))
        ELSE IF ~tree.ok THEN Out(g, reply_error(ENOENT))
        ELSE IF offset < 0 THEN Out(g, reply_error(EINVAL))
        ELSE LET dot == IF ~(offset >= 1)
                        THEN <<DirEnt(tree.ino, 1, "Directory", NameDot)>>
                        ELSE <<>>
                 dotdot == IF ~(offset >= 2)
                           THEN <<DirEnt(ino_parent_of(g, tree.ino), 2, "Directory",
                                         NameDotDot)>>
                           ELSE <<>>
                 rest == readdir_entries(g, tree_parent(g, tree.ino), tree.obj.entries,
                                         saturating_sub(offset, 2) + 1, dot \o dotdot)
             IN  Out(rest.g, reply_ok(rest.listing))

\* GilberFS::readdir
readdir(g, ino, offset) ==
    LET tree == get_tree_by_inode(g, ino)
    IN  IF ino = ROOT_INO THEN Out(g, reply_error(ENOENT))
        ELSE IF offset < 0 THEN Out(g, reply_error(EINVAL))
        ELSE IF ~tree.ok THEN Out(g, reply_error(ENOENT))
        ELSE LET dot == IF ~(offset >= 1)
                        THEN <<DirEnt(tree.ino, 1, "Directory", NameDot)>>
                        ELSE <<>>
                 dotdot == IF ~(offset >= 2)
                           THEN <<DirEnt(ino_parent_of(g, tree.ino), 2, "Directory",
                                         NameDotDot)>>
                           ELSE <<>>
                 rest == readdir_entries(g, tree_parent(g, tree.ino), tree.obj.entries,
                                         saturating_sub(offset, 2) + 1, dot \o dotdot)
             IN  Out(rest.g, reply_ok(rest.listing))

(***************************************************************************)
(* The kernel's requests.                                                  *)
(***************************************************************************)
\* The inode numbers a request carries: the root, every inode issued so far
\* and one that was never issued.
Inos == ROOT_INO..(inode_gen + 1)

Names ==
    { <<"c", "1">>, <<"c", "2">>, <<"b", "1">>, <<"e", "e">>, <<"z", "z">>,
      <<"c", "1", "0">>, <<"c", NonUtf8>>, <<"e">>, NameATxt, NameB, NameC, NameD }

Request(op, ino, name, offset, size) ==
    [op |-> op, ino |-> ino, name |-> name, offset |-> offset, size |-> size]

NoPage == [active |-> FALSE, ino |-> 0, cursor |-> 0, acc |-> <<>>, calls |-> 0,
           done |-> FALSE]

\* The requests in flight, and a request that is not inside get_object.
Threads == 1..NumRequests
NoCall == [pc |-> "idle", parent |-> 0, hash |-> 0, kind |-> "none",
           ok |-> FALSE, ino |-> 0, fresh |-> FALSE]

Init ==
    /\ inode_map = {}
    /\ inode_gen = ROOT_INO
    /\ ino_parent = {}
    /\ overwritten = FALSE
    /\ resolved = {}
    /\ request = Request("mount", 0, <<>>, 0, 0)
    /\ reply = reply_ok(<<>>)
    /\ replies = 1
    /\ page = NoPage
    /\ threads = [t \in Threads |-> NoCall]

\* One request handled to completion: the handler's outcome becomes the state.
Handled(req, out) ==
    \E o \in {out} :
        /\ inode_map' = o.g.inode_map
        /\ inode_gen' = o.g.inode_gen
        /\ ino_parent' = o.g.ino_parent
        /\ overwritten' = o.g.overwritten
        /\ resolved' = o.g.resolved
        /\ request' = req
        /\ reply' = o.reply
        /\ replies' = o.replies

LookupIn(names) ==
    \E parent \in Inos, name \in names :
        /\ Handled(Request("lookup", parent, name, 0, 0), lookup(Repo, parent, name))
        /\ UNCHANGED <<page, threads>>

Lookup == LookupIn(Names)

Getattr ==
    \E ino \in Inos :
        /\ Handled(Request("getattr", ino, <<>>, 0, 0), getattr(Repo, ino))
        /\ UNCHANGED <<page, threads>>

Read ==
    \E ino \in Inos, offset \in -1..MaxOffset, size \in 0..MaxSize :
        /\ Handled(Request("read", ino, <<>>, offset, size), read(Repo, ino, offset, size))
        /\ UNCHANGED <<page, threads>>

Readdir ==
    \E ino \in Inos, offset \in -1..MaxDirOffset :
        /\ Handled(Request("readdir", ino, <<>>, offset, 0), readdir(Repo, ino, offset))
        /\ UNCHANGED <<page, threads>>

Next == Lookup \/ Getattr \/ Read \/ Readdir

Spec == Init /\ [][Next]_vars

(***************************************************************************)
(* A client listing one directory page by page.  The kernel hands the      *)
(* client a non-empty prefix of what one readdir call listed, and the      *)
(* client resumes from the offset of the last entry it received.           *)
(***************************************************************************)
\* The names a client walks down from the root to reach the directories.
WalkNames == { <<"c", "1">>, <<"c", "2">>, NameATxt, NameD }

Walk == LookupIn(WalkNames)

TreeInos(m) == {p[1] : p \in {q \in m : find_object(q[2], "tree").ok}}

PageOpen ==
    \E ino \in TreeInos(inode_map) :
        /\ page' = [active |-> TRUE, ino |-> ino, cursor |-> 0, acc |-> <<>>,
                    calls |-> 0, done |-> FALSE]
        /\ UNCHANGED <<inode_map, inode_gen, ino_parent, overwritten, resolved,
                       request, reply, replies, threads>>

\* The client's next call: of the n entries listed it receives the first k,
\* one at least unless the listing is empty, and then it is done.
Received(listing, k) ==
    IF k = 0
    THEN [page EXCEPT !.done = TRUE, !.calls = @ + 1]
    ELSE [page EXCEPT !.acc = @ \o SubSeq(listing, 1, k),
                      !.cursor = listing[k].offset,
                      !.calls = @ + 1]

PageRead ==
    /\ page.active /\ ~page.done
    /\ \E o \in {readdir(Repo, page.ino, page.cursor)} :
          /\ Handled(Request("readdir", page.ino, <<>>, page.cursor, 0), o)
          /\ \E k \in 0..Len(o.reply.entries) :
                /\ (k = 0) <=> (o.reply.entries = <<>>)
                /\ page' = Received(o.reply.entries, k)
    /\ UNCHANGED threads

NextPaging == Walk \/ PageOpen \/ PageRead

SpecPaging == Init /\ [][NextPaging]_vars

(***************************************************************************)
(* Properties of the registry.                                             *)
(***************************************************************************)
Injective(m) ==
    \A p \in m, q \in m : (p[1] = q[1] \/ p[2] = q[2]) => p = q

\* C1: in every reachable state the registry maps no inode to two hashes and
\* no hash to two inodes, and no insert of get_object has displaced a pair.
C1_RegistryInjective ==
    /\ Injective(inode_map)
    /\ ~overwritten
    /\ \A p \in resolved : p[2] \in get_by_right(inode_map, p[1])

\* Several hashes are registered, the last of them by a directory listing.
C1_Witness ==
    /\ Cardinality(inode_map) >= 4
    /\ request.op = "readdir" /\ reply.kind = "dir"

\* C2: every successful by-hash resolution of a hash has returned the same
\* inode, and the allocator has advanced once per resolved hash, not once per
\* resolution.
C2_SameInodePerHash ==
    /\ \A p \in resolved, q \in resolved : p[1] = q[1] => p[2] = q[2]
    /\ inode_gen - ROOT_INO = Cardinality({p[1] : p \in resolved})

\* A lookup under the root resolves a commit and its tree again after other
\* hashes were registered in between.
C2_Witness ==
    /\ request.op = "lookup" /\ request.ino = ROOT_INO
    /\ reply.kind = "entry"
    /\ reply.attr.ino + 2 <= inode_gen

\* C3: a step never removes or changes a registered pair; every inode it
\* registers is greater than the root inode and than every inode registered
\* before, so inode 1 is never registered and no inode gets a second hash.
C3_Step ==
    /\ inode_map \subseteq inode_map'
    /\ inode_gen' >= inode_gen
    /\ \A p \in inode_map' \ inode_map :
          /\ p[1] > ROOT_INO
          /\ p[1] > inode_gen
          /\ p[1] <= inode_gen'
          /\ \A q \in inode_map : p[1] > q[1]
    /\ \A p \in resolved', q \in resolved' : p[2] = q[2] => p[1] = q[1]
    /\ get_by_left(inode_map', ROOT_INO) = {}

C3_MonotoneNeverEvicts == [][C3_Step]_vars

\* A listing registered new inodes on top of those registered before.
C3_Witness ==
    /\ request.op = "readdir" /\ reply.kind = "dir"
    /\ Len(reply.entries) = 4
    /\ inode_gen >= 5

(***************************************************************************)
(* Properties of the replies.                                              *)
(***************************************************************************)
\* The object an inode is registered to, NoObject for an unregistered inode.
RegisteredObject(ino) ==
    LET hit == get_by_left(inode_map, ino)
    IN  IF hit = {} THEN NoObject
        ELSE LET hash == CHOOSE h \in hit : TRUE
             IN  IF hash \in DOMAIN ObjectDb THEN ObjectDb[hash] ELSE NoObject

\* content[from .. to), counted from 0; empty when from >= to.
Bytes(content, from, to) ==
    [i \in 1..(IF to > from THEN to - from ELSE 0) |-> content[from + i]]

\* C4: a read of a registered Blob inode with offset >= 0 and size >= 0
\* replies with the data content[offset .. min(offset+size, len)], which is
\* empty whenever offset >= len.
C4_ReadSlice ==
    (/\ request.op = "read"
     /\ RegisteredObject(request.ino).kind = "blob"
     /\ request.offset >= 0 /\ request.size >= 0)
    => LET content == RegisteredObject(request.ino).content
       IN  /\ reply.kind = "data"
           /\ reply.data = Bytes(content, request.offset,
                                 Min(request.offset + request.size, Len(content)))

\* C4 holds of every read that starts inside the content or at its end.
C4_ReadSliceWithinContent ==
    (/\ request.op = "read"
     /\ RegisteredObject(request.ino).kind = "blob"
     /\ request.offset >= 0 /\ request.size >= 0
     /\ request.offset <= Len(RegisteredObject(request.ino).content))
    => LET content == RegisteredObject(request.ino).content
       IN  /\ reply.kind = "data"
           /\ reply.data = Bytes(content, request.offset,
                                 Min(request.offset + request.size, Len(content)))

\* The listing one readdir call from offset 0 produces in the current state.
FullListing(ino) == readdir(Repo, ino, 0).reply.entries

IsPrefix(a, b) == Len(a) <= Len(b) /\ a = SubSeq(b, 1, Len(a))

\* C5: what a paging client has accumulated is at every moment the prefix of
\* the single-call listing made of the entries up to its cursor, and is the
\* whole single-call listing once a call returns nothing more.
C5_PagingReproducesListing ==
    page.active =>
        LET full == FullListing(page.ino)
        IN  /\ IsPrefix(page.acc, full)
            /\ \A j \in 1..Len(full) :
                  (j <= Len(page.acc)) <=> (full[j].offset <= page.cursor)
            /\ page.done => page.acc = full

\* A listing of four entries was received in three calls or more.
C5_Witness ==
    /\ page.done
    /\ Len(page.acc) = 4
    /\ page.calls >= 4

\* The stored entries of a tree that a listing shows: those of kind Blob or
\* Tree whose object the backend resolves, with their stored index.
Listed(entries) ==
    {i \in 1..Len(entries) :
        /\ entries[i].kind \in {"blob", "tree"}
        /\ find_object(entries[i].id, entries[i].kind).ok}

\* C6: readdir(ino, 0) of a registered Tree inode lists "." at offset 1 with
\* the tree's own inode, ".." at offset 2, then stored entries in their
\* stored order, the entry stored at index i (from 0) with offset i + 3,
\* Directory for a Tree entry and RegularFile for a Blob entry.
C6_ListingLayout ==
    (/\ request.op = "readdir" /\ request.offset = 0
     /\ request.ino # ROOT_INO
     /\ RegisteredObject(request.ino).kind = "tree")
    => LET stored == RegisteredObject(request.ino).entries
           l == reply.entries
       IN  /\ reply.kind = "dir"
           /\ Len(l) = 2 + Cardinality(Listed(stored))
           /\ l[1] = DirEnt(request.ino, 1, "Directory", NameDot)
           /\ l[2].offset = 2 /\ l[2].name = NameDotDot /\ l[2].kind = "Directory"
           /\ \A j \in 3..Len(l) :
                 /\ l[j].offset - 2 \in Listed(stored)
                 /\ l[j].name = stored[l[j].offset - 2].name
                 /\ l[j].kind = (IF stored[l[j].offset - 2].kind = "tree"
                                 THEN "Directory" ELSE "RegularFile")
                 /\ l[j].offset > l[j - 1].offset
           /\ (request.ino \in get_by_right(inode_map, OidA1)
                 => [j \in 1..Len(l) |-> l[j].name]
                      = <<NameDot, NameDotDot, NameATxt, NameD>>)

\* The root tree of commit c1 was listed from offset 0.
C6_Witness ==
    /\ request.op = "readdir" /\ request.offset = 0
    /\ request.ino \in get_by_right(inode_map, OidA1)
    /\ reply.kind = "dir" /\ Len(reply.entries) = 4
    /\ reply.entries[3].kind = "RegularFile" /\ reply.entries[4].kind = "Directory"

\* C7: a read of inode 1 or of an inode registered to a Tree replies EISDIR,
\* whatever the offset and the size.
C7_ReadDirectoryIsEISDIR ==
    (/\ request.op = "read"
     /\ (request.ino = ROOT_INO \/ RegisteredObject(request.ino).kind = "tree"))
    => reply = reply_error(EISDIR)

\* A Tree inode was read with a negative offset.
C7_Witness ==
    /\ request.op = "read" /\ request.offset < 0
    /\ RegisteredObject(request.ino).kind = "tree"
    /\ reply = reply_error(EISDIR)

\* Whether a name under the root is a hash string that names a Commit.
NamesCommit(name) ==
    /\ to_str(name).some
    /\ Oid_from_str(to_str(name).str).ok
    /\ find_object(Oid_from_str(to_str(name).str).oid, "any").ok
    /\ find_object(Oid_from_str(to_str(name).str).oid, "any").obj.kind = "commit"

C9_Getattr ==
    request.op = "getattr"
    => LET obj == RegisteredObject(request.ino)
       IN  IF request.ino = ROOT_INO THEN reply = reply_attr(ROOT_ATTR)
           ELSE IF obj.kind = "tree"
           THEN /\ reply.kind = "attr" /\ reply.attr.ino = request.ino
                /\ reply.attr.kind = "Directory" /\ reply.attr.size = 0
           ELSE IF obj.kind = "blob"
           THEN /\ reply.kind = "attr" /\ reply.attr.ino = request.ino
                /\ reply.attr.kind = "RegularFile"
                /\ reply.attr.size = Len(obj.content)
           ELSE reply = reply_error(ENOENT)

\* The attributes of an inode registered to a Commit were asked for.
C9_Witness ==
    /\ request.op = "getattr"
    /\ RegisteredObject(request.ino).kind = "commit"
    /\ reply = reply_error(ENOENT)
    /\ \E p \in inode_map : RegisteredObject(p[1]).kind = "blob"

\* C10: every request ends with exactly one terminal reply.
C10_ExactlyOneReply == replies = 1

\* The entries of a listing that come from the tree, "." and ".." left out.
StoredPart(l) == SelectSeq(l, LAMBDA e : e.offset >= 3)

\* C11: a readdir of a registered Tree inode ends with the done reply, and
\* lists past the cursor exactly the stored entries that resolve to a Blob or
\* a Tree, each at its stored index + 3; an entry that does not resolve, or
\* resolves to another kind, is left out and hides no entry behind it.
C11_OmitsOnlyUnlistable ==
    (/\ request.op = "readdir" /\ request.offset >= 0
     /\ request.ino # ROOT_INO
     /\ RegisteredObject(request.ino).kind = "tree")
    => LET stored == RegisteredObject(request.ino).entries
           l == StoredPart(reply.entries)
       IN  /\ reply.kind = "dir"
           /\ {l[j].offset : j \in 1..Len(l)}
                 = {i + 2 : i \in {k \in Listed(stored) : k + 2 > request.offset}}
           /\ \A j \in 1..Len(l) :
                 /\ l[j].name = stored[l[j].offset - 2].name
                 /\ j > 1 => l[j].offset > l[j - 1].offset

\* A listing left out the entries at offsets 4 and 5 and still lists the
\* entry at offset 6.
C11_Witness ==
    /\ request.op = "readdir" /\ request.offset = 3
    /\ reply.kind = "dir"
    /\ Len(reply.entries) = 1
    /\ reply.entries[1].offset = 6 /\ reply.entries[1].name = NameD

(***************************************************************************)
(* How hashes enter the registry.                                          *)
(***************************************************************************)
\* The hashes the entries of a tree object name.
EntryIds(obj) == {obj.entries[i].id : i \in 1..Len(obj.entries)}

\* The hashes of S and those the Blob and Tree entries of its trees name.
Below(S) ==
    S \cup {h \in DOMAIN ObjectDb :
              \E t \in S : /\ t \in DOMAIN ObjectDb
                           /\ \E i \in 1..Len(ObjectDb[t].entries) :
                                 /\ ObjectDb[t].entries[i].id = h
                                 /\ ObjectDb[t].entries[i].kind = ObjectDb[h].kind
                                 /\ ObjectDb[h].kind \in {"blob", "tree"}}

RECURSIVE Closure(_)
Closure(S) == IF Below(S) = S THEN S ELSE Closure(Below(S))

\* The trees and blobs a chain of lookups from a commit named under the root
\* can arrive at.
ChainReachable ==
    Closure({ObjectDb[h].tree_id : h \in {x \in DOMAIN ObjectDb : ObjectDb[x].kind = "commit"}})

\* C12: a step registers a hash only in a lookup under inode 1 of a commit
\* hash (the commit and its root tree) or, in a lookup or readdir of a Tree
\* inode registered before the step, as an entry of that tree; so every
\* registered Tree or Blob is at the end of a chain of lookups that starts at
\* a commit named under inode 1.
C12_Step ==
    /\ \A p \in inode_map' \ inode_map :
          \/ /\ request'.op = "lookup" /\ request'.ino = ROOT_INO
             /\ NamesCommit(request'.name)
             /\ p[2] \in {Oid_from_str(request'.name).oid,
                          ObjectDb[Oid_from_str(request'.name).oid].tree_id}
          \/ /\ request'.op \in {"lookup", "readdir"}
             /\ request'.ino # ROOT_INO
             /\ RegisteredObject(request'.ino).kind = "tree"
             /\ p[2] \in EntryIds(RegisteredObject(request'.ino))
    /\ \A p \in inode_map' :
          ObjectDb[p[2]].kind \in {"tree", "blob"} => p[2] \in ChainReachable

C12_AdmittedThroughChain == [][C12_Step]_vars

\* The registry holds a commit admitted as an entry of a tree, next to a blob
\* and the commit and root tree admitted by a lookup under inode 1.
C12_Witness ==
    /\ \E p \in inode_map : p[2] = OidC2 /\ <<p[1], OidC1>> \in ino_parent
    /\ get_by_right(inode_map, OidB1) # {}
    /\ get_by_right(inode_map, OidC1) # {}

\* C13: a readdir with a non-negative offset of inode 1, of an unregistered
\* inode or of an inode registered to an object that is not a Tree replies
\* ENOENT and lists nothing.
C13_ReaddirNotATree ==
    (/\ request.op = "readdir" /\ request.offset >= 0
     /\ (request.ino = ROOT_INO \/ RegisteredObject(request.ino).kind # "tree"))
    => /\ reply = reply_error(ENOENT)
       /\ reply.entries = <<>>
       /\ replies = 1

\* A Blob inode was listed, with inode 1 and an unregistered inode around.
C13_Witness ==
    /\ request.op = "readdir" /\ request.offset >= 0
    /\ RegisteredObject(request.ino).kind = "blob"
    /\ reply = reply_error(ENOENT)

\* The entry of a tree object with the given name, as a set of indexes.
Named(obj, name) == {i \in 1..Len(obj.entries) : obj.entries[i].name = name}

\* C14: a lookup under a parent other than inode 1 replies with the entry's
\* attributes (Directory for a Tree, RegularFile for a Blob) exactly when the
\* parent is a registered Tree inode with an entry of that name whose kind is
\* Blob or Tree and whose object resolves, and replies ENOENT otherwise.
C14_LookupInTree ==
    (request.op = "lookup" /\ request.ino # ROOT_INO)
    => LET tree == RegisteredObject(request.ino)
           hit == IF tree.kind = "tree"
                  THEN Named(tree, request.name) \cap Listed(tree.entries)
                  ELSE {}
       IN  IF hit # {}
           THEN LET e == tree.entries[CHOOSE i \in hit : TRUE]
                IN  /\ reply.kind = "entry"
                    /\ reply.attr.ino \in get_by_right(inode_map, e.id)
                    /\ reply.attr.kind = (IF e.kind = "tree" THEN "Directory"
                                          ELSE "RegularFile")
                    /\ reply.attr.size = Len(ObjectDb[e.id].content)
           ELSE reply = reply_error(ENOENT)

\* A file was looked up in a tree; the tree also has entries that are missing
\* or of another kind.
C14_Witness ==
    /\ request.op = "lookup" /\ request.ino # ROOT_INO
    /\ request.name = NameATxt
    /\ reply.kind = "entry" /\ reply.attr.kind = "RegularFile" /\ reply.attr.size = 2

(***************************************************************************)
(* The ".." entry.                                                         *)
(***************************************************************************)
\* The inode a readdir from offset 0 lists for ".." in the current state.
DotDot(ino) == FullListing(ino)[2].ino

\* The parent hash a lookup that replied with an entry reached its entry
\* under: the commit named, for a lookup under inode 1, and otherwise the
\* parent hash the handler passed along with the entry (tree.parent()).
ReachedUnder ==
    IF request.ino = ROOT_INO THEN Oid_from_str(request.name).oid
    ELSE tree_parent(Repo, request.ino)

\* C15: when the kernel has reached a Tree by a lookup, readdir lists for
\* ".." in that Tree the registered inode of the parent hash under which the
\* Tree was reached.
C15_DotDotIsParentReachedUnder ==
    (request.op = "lookup" /\ reply.kind = "entry" /\ reply.attr.kind = "Directory")
    => DotDot(reply.attr.ino) \in get_by_right(inode_map, ReachedUnder)

\* What holds instead: ".." is the registered inode of the parent hash under
\* which the Tree's hash was resolved for the first time, whatever parent it
\* is reached under later.
C15_DotDotIsFirstParent ==
    \A p \in inode_map :
        ObjectDb[p[2]].kind = "tree"
        => /\ Cardinality({q \in ino_parent : q[1] = p[1]}) = 1
           /\ DotDot(p[1]) \in get_by_right(inode_map, tree_parent(Repo, p[1]))

\* C16: a negative offset is answered with EINVAL and nothing else: by read
\* on a registered Blob inode, and by readdir on every inode other than 1,
\* registered to a Tree or not.
C16_NegativeOffsetIsEINVAL ==
    /\ (/\ request.op = "read" /\ request.offset < 0
        /\ RegisteredObject(request.ino).kind = "blob")
       => reply = reply_error(EINVAL)
    /\ (/\ request.op = "readdir" /\ request.offset < 0
        /\ request.ino # ROOT_INO)
       => reply = reply_error(EINVAL)

\* A readdir with a negative offset named an inode that is not registered,
\* while a Blob is registered.
C16_Witness ==
    /\ request.op = "readdir" /\ request.offset < 0
    /\ request.ino # ROOT_INO
    /\ get_by_left(inode_map, request.ino) = {}
    /\ reply = reply_error(EINVAL)
    /\ \E p \in inode_map : ObjectDb[p[2]].kind = "blob"

\* A read with a negative offset named a Blob inode.
C16_WitnessRead ==
    /\ request.op = "read" /\ request.offset < 0
    /\ RegisteredObject(request.ino).kind = "blob"
    /\ reply = reply_error(EINVAL)

(***************************************************************************)
(* Inodes the kernel has seen.                                             *)
(***************************************************************************)
\* The (inode, kind) pairs a reply shows to the kernel.
Surfaced(req, rep) ==
    IF req.op = "lookup" /\ rep.kind = "entry"
    THEN {<<rep.attr.ino, rep.attr.kind, req.name>>}
    ELSE IF req.op = "readdir" /\ rep.kind = "dir"
    THEN {<<rep.entries[j].ino, rep.entries[j].kind, rep.entries[j].name>> :
             j \in 1..Len(rep.entries)}
    ELSE {}

\* getattr on the inode replies attributes of the given kind.
Resolvable(g, ino, kind) ==
    /\ getattr(g, ino).reply.kind = "attr"
    /\ getattr(g, ino).reply.attr.kind = kind

\* C17: every inode a lookup reply or a readdir listing shows is resolvable
\* from then on: getattr replies attributes of the kind shown, in the state
\* the reply is sent in and in every state after it.
C17_Step ==
    /\ \A e \in Surfaced(request', reply') : Resolvable(Repo', e[1], e[2])
    /\ \A ino \in ROOT_INO..inode_gen, kind \in {"Directory", "RegularFile"} :
          Resolvable(Repo, ino, kind) => Resolvable(Repo', ino, kind)

C17_SurfacedStaysResolvable == [][C17_Step]_vars

\* What holds instead: the same, of every inode shown but the one of "..".
C17_StepButDotDot ==
    /\ \A e \in Surfaced(request', reply') :
          (request'.op = "readdir" /\ e[3] = NameDotDot) \/ Resolvable(Repo', e[1], e[2])
    /\ \A ino \in ROOT_INO..inode_gen, kind \in {"Directory", "RegularFile"} :
          Resolvable(Repo, ino, kind) => Resolvable(Repo', ino, kind)

C17_SurfacedButDotDotStaysResolvable == [][C17_StepButDotDot]_vars

(***************************************************************************)
(* lookup and readdir agree.                                               *)
(***************************************************************************)
\* C18: for a registered Tree inode and an entry of kind Blob or Tree, the
\* inode in the reply of lookup is the inode readdir from offset 0 lists for
\* that name: a listing made after a lookup shows the inode the lookup
\* replied, and a lookup made after a listing replies the inode listed.
C18_LookupAgreesWithReaddir ==
    /\ (request.op = "lookup" /\ request.ino # ROOT_INO /\ reply.kind = "entry")
       => \E j \in 3..Len(FullListing(request.ino)) :
             /\ FullListing(request.ino)[j].name = request.name
             /\ FullListing(request.ino)[j].ino = reply.attr.ino
    /\ (request.op = "readdir" /\ request.offset = 0 /\ reply.kind = "dir")
       => \A j \in 3..Len(reply.entries) :
             /\ lookup(Repo, request.ino, reply.entries[j].name).reply.kind = "entry"
             /\ lookup(Repo, request.ino, reply.entries[j].name).reply.attr.ino
                   = reply.entries[j].ino

\* A listing shows, for a directory looked up before the listing, the inode
\* that lookup was given, and a newer inode for the file listed before it.
C18_Witness ==
    /\ request.op = "readdir" /\ request.offset = 0 /\ reply.kind = "dir"
    /\ Len(reply.entries) = 4
    /\ reply.entries[3].ino > reply.entries[4].ino

(***************************************************************************)
(* What changes the registry.                                              *)
(***************************************************************************)
\* The registry and the counter are as they were before the step.
RegistryUnchanged == inode_map' = inode_map /\ inode_gen' = inode_gen

\* C19: the registry and the counter change only by pairs added for hashes
\* the backend holds and that were not registered, one inode number per
\* pair; getattr and read leave both alone, and so do a lookup under inode 1
\* of a name that is no commit of the backend and every request answered
\* with ENOENT, EISDIR or EINVAL.  (Every commit of the modelled backend has
\* its root tree, so no request registers an object and then replies an
\* error.)
C19_Step ==
    /\ inode_map \ inode_map' = {}
    /\ \A p \in inode_map' \ inode_map :
          /\ find_object(p[2], "any").ok
          /\ get_by_right(inode_map, p[2]) = {}
          /\ <<p[2], p[1]>> \in resolved'
    /\ inode_gen' = inode_gen + Cardinality(inode_map' \ inode_map)
    /\ request'.op \in {"getattr", "read"} => RegistryUnchanged
    /\ (/\ request'.op = "lookup" /\ request'.ino = ROOT_INO
        /\ LET oid == Oid_from_str(request'.name)
           IN  ~oid.ok \/ ~find_object(oid.oid, "commit").ok)
       => RegistryUnchanged
    /\ (reply'.kind = "error" /\ reply'.errno \in {ENOENT, EISDIR, EINVAL})
       => RegistryUnchanged

C19_RegistryChangesOnlyOnNewResolution == [][C19_Step]_vars

\* A lookup under inode 1 named the hash of a Blob and was refused, with
\* objects registered and every inode number issued so far in the registry.
C19_Witness ==
    /\ request.op = "lookup" /\ request.ino = ROOT_INO
    /\ request.name = <<"b", "1">>
    /\ find_object(Oid_from_str(request.name).oid, "blob").ok
    /\ reply = reply_error(ENOENT)
    /\ inode_gen > ROOT_INO
    /\ Cardinality(inode_map) = inode_gen - ROOT_INO

(***************************************************************************)
(* Requests handled concurrently.  get_object is taken apart into the      *)
(* steps of its body, so that the steps of two requests can be ordered in  *)
(* every way the borrow of the registry admits.                            *)
(***************************************************************************)
\* The by-hash resolutions the requests make: get_commit, get_tree, get_blob
\* of a commit, a tree, a blob and a hash the backend does not hold.
CallHashes == {OidC1, OidA1, OidB1, OidB9}
CallKinds == {"commit", "tree", "blob"}

\* Whether request t is inside the body of get_object.
InCall(th, t) == th[t].pc \in {"called", "miss"}

\* A borrow of the registry shared between the requests: nothing keeps two
\* of them out of get_object at once.
shared_borrow(th, t) == TRUE

\* get_object(&mut self, ...): the registry is borrowed exclusively, so
\* request t runs in get_object only while no other request is inside it.
exclusive_borrow(th, t) == \A u \in Threads \ {t} : ~InCall(th, u)

\* A request enters get_object.
CallGetObject(t) ==
    /\ threads[t].pc = "idle"
    /\ exclusive_borrow(threads, t)
    /\ \E hash \in CallHashes, kind \in CallKinds :
          threads' = [threads EXCEPT ![t] =
                         [NoCall EXCEPT !.pc = "called", !.parent = OidC1,
                                        !.hash = hash, !.kind = kind]]
    /\ UNCHANGED <<inode_map, inode_gen, ino_parent, overwritten, resolved,
                   request, reply, replies, page>>

\* find_object and the cache lookup of get_object: the call fails, returns
\* the inode registered to the hash, or goes on to the insert.
CheckCache(t) ==
    /\ threads[t].pc = "called"
    /\ exclusive_borrow(threads, t)
    /\ LET c == threads[t]
           found == find_object(c.hash, c.kind)
           hit == get_by_right(inode_map, c.hash)
       IN  IF ~found.ok
           THEN /\ threads' = [threads EXCEPT ![t].pc = "done"]
                /\ UNCHANGED resolved
           ELSE IF hit # {}
           THEN LET ino == CHOOSE i \in hit : TRUE
                IN  /\ threads' = [threads EXCEPT ![t].pc = "done", ![t].ok = TRUE,
                                                  ![t].ino = ino]
                    /\ resolved' = resolved \cup {<<c.hash, ino>>}
           ELSE /\ threads' = [threads EXCEPT ![t].pc = "miss"]
                /\ UNCHANGED resolved
    /\ UNCHANGED <<inode_map, inode_gen, ino_parent, overwritten,
                   request, reply, replies, page>>

\* The miss branch of get_object: the next inode is drawn and inserted.
InsertNew(t) ==
    /\ threads[t].pc = "miss"
    /\ exclusive_borrow(threads, t)
    /\ LET c == threads[t]
           ino == InodeGen_next(inode_gen)
           g == assign(Repo, c.parent, c.hash, ino)
       IN  /\ inode_map' = g.inode_map
           /\ inode_gen' = g.inode_gen
           /\ ino_parent' = g.ino_parent
           /\ overwritten' = g.overwritten
           /\ resolved' = g.resolved
           /\ threads' = [threads EXCEPT ![t].pc = "done", ![t].ok = TRUE,
                                         ![t].ino = ino, ![t].fresh = TRUE]
    /\ UNCHANGED <<request, reply, replies, page>>

\* The request is over; its thread takes the next one.
Return(t) ==
    /\ threads[t].pc = "done"
    /\ threads' = [threads EXCEPT ![t] = NoCall]
    /\ UNCHANGED <<inode_map, inode_gen, ino_parent, overwritten, resolved,
                   request, reply, replies, page>>

NextConcurrent ==
    \E t \in Threads :
        \/ CallGetObject(t)
        \/ CheckCache(t)
        \/ InsertNew(t)
        \/ Return(t)

SpecConcurrent == Init /\ [][NextConcurrent]_vars

\* The two steps of a call, taken together, are get_object: a call that
\* ends holds the outcome get_object computes from the registry the call
\* was entered with.
StepsAreGetObject ==
    \A t \in Threads :
        (threads[t].pc = "called" /\ threads'[t].pc = "miss")
        \/ (threads[t].pc \in {"called", "miss"} /\ threads'[t].pc = "done")
        => LET c == threads[t]
               r == get_object(Repo, c.parent, c.hash, c.kind)
           IN  IF threads'[t].pc = "miss"
               THEN r.ok /\ r.g.inode_map # inode_map
               ELSE /\ threads'[t].ok = r.ok
                    /\ threads'[t].ino = r.ino
                    /\ inode_map' = r.g.inode_map
                    /\ inode_gen' = r.g.inode_gen
                    /\ ino_parent' = r.g.ino_parent
                    /\ overwritten' = r.g.overwritten
                    /\ resolved' = r.g.resolved

GetObjectInSteps == [][StepsAreGetObject]_vars

\* C20: with get_object run as one step per request, requests that resolved
\* the same hash hold the same inode, whichever of them registered it, the
\* inode they hold is the one registered, and the registry is injective with
\* no pair displaced.
C20_AtomicGetObjectKeepsInjective ==
    /\ Injective(inode_map)
    /\ ~overwritten
    /\ \A t \in Threads :
          (threads[t].pc = "done" /\ threads[t].ok)
          => get_by_right(inode_map, threads[t].hash) = {threads[t].ino}
    /\ \A t \in Threads, u \in Threads :
          (/\ threads[t].pc = "done" /\ threads[t].ok
           /\ threads[u].pc = "done" /\ threads[u].ok
           /\ threads[t].hash = threads[u].hash)
          => threads[t].ino = threads[u].ino

\* Two requests resolved the same hash, not registered before: the second
\* request registered it, the first one found it in the cache afterwards.
C20_Witness ==
    /\ threads[1].pc = "done" /\ threads[1].ok /\ ~threads[1].fresh
    /\ threads[2].pc = "done" /\ threads[2].ok /\ threads[2].fresh
    /\ threads[1].hash = threads[2].hash
    /\ threads[1].ino = threads[2].ino

\* The same with the first request registering the hash.
C20_WitnessOtherOrder ==
    /\ threads[1].pc = "done" /\ threads[1].ok /\ threads[1].fresh
    /\ threads[2].pc = "done" /\ threads[2].ok /\ ~threads[2].fresh
    /\ threads[1].hash = threads[2].hash
    /\ threads[1].ino = threads[2].ino

====
